---- MODULE Spec2Model ----
(***************************************************************************)
(* A model of AIService (src/src/core/ai/AIService.ts): the model          *)
(* selection, the image generation task poller (generateImage,             *)
(* getDashScopeImageResult, downloadImage) and the text operations         *)
(* (generateSummary, generateTitle, generateKeywords, validateContent).    *)
(*                                                                         *)
(* An async method is a process: its pc names the await it is suspended    *)
(* at, and one action is the code that runs from one await to the next.    *)
(* Remote responses are inputs, drawn with \E from the shapes the code     *)
(* tells apart.  JS strings are sequences of characters; the JS values     *)
(* undefined, null and "" of a string are the empty sequence or "".        *)
(***************************************************************************)
EXTENDS Integers, Sequences, FiniteSets, TLC

(***************************************************************************)
(* Bounds of the model.                                                    *)
(***************************************************************************)
\* the largest explicit options.maxAttempts an invocation is given
MaxN == 3

\* the longest word of a text
MaxLen == 3

\* the concurrent generateImage invocations on the one service instance
Invocations == {1, 2}

(***************************************************************************)
(* Program constants.                                                      *)
(***************************************************************************)
\* getDashScopeImageResult(taskId, maxAttempts = 15, ...)
DefaultMaxAttempts == 15

\* options?.maxLength || 250
DefaultSummaryMaxLength == 250

\* generateTitle(content, currentTitle?, maxLength = 70)
DefaultTitleMaxLength == 70

\* generateKeywords(content, maxKeywords = 10)
DefaultMaxKeywords == 10

AVAILABLE_MODELS == {"deepseek-reasoner", "deepseek-chat"}

\* config.model / switchModel arguments: "" is undefined or the empty string
ModelNames == AVAILABLE_MODELS \cup {"", "gpt-4"}

\* task_status values of the remote job; the code tells SUCCEEDED, FAILED
\* and everything else apart
TaskStatuses == {"PENDING", "RUNNING", "SUCCEEDED", "FAILED"}

\* how a remote request fails (axios or generateText throws)
ErrorKinds == {"transient", "fatal"}

VARIABLES
    modelName,        \* this.modelName
    dashscopeApiKey,  \* this.dashscopeApiKey ("" when the variable is unset)
    configModel,      \* config.model, as the constructor was given it
    lastSwitch,       \* the argument of the latest switchModel call ("none": no call)
    img,              \* img[i]: the locals of generateImage invocation i
    remote,           \* remote[t]: the remote job's task_status ("none": no job)
    txt               \* txt[c]: the locals of text operation call c

service == <<modelName, dashscopeApiKey, configModel, lastSwitch>>

vars == <<service, img, remote, txt>>

TaskIds == 1..Cardinality(Invocations)

(***************************************************************************)
(* Model selection.                                                        *)
(***************************************************************************)
\* JS a || b on strings
OrElse(a, b) == IF a # "" THEN a ELSE b

validateModel(name) ==
    IF name # "" /\ name \in AVAILABLE_MODELS THEN name ELSE ""

\* the constructor without validateModel: any non-empty config.model is taken
Constructor_noValidate(model) == OrElse(model, "deepseek-reasoner")

\* line 26
Constructor(model) == OrElse(validateModel(model), "deepseek-reasoner")

(***************************************************************************)
(* JS string operations, on sequences of characters.                       *)
(***************************************************************************)
Min(a, b) == IF a < b THEN a ELSE b

Max(a, b) == IF a > b THEN a ELSE b

Clamp(x, n) == Max(0, Min(x, n))

\* String.prototype.substring(a, b): both ends clamped to 0..length, and
\* swapped when a > b
Substring(s, a, b) ==
    LET ca == Clamp(a, Len(s))
        cb == Clamp(b, Len(s))
    IN  SubSeq(s, Min(ca, cb) + 1, Max(ca, cb))

Whitespace == {" "}

RECURSIVE TrimStart(_)
TrimStart(s) ==
    IF s # <<>> /\ Head(s) \in Whitespace THEN TrimStart(Tail(s)) ELSE s

RECURSIVE TrimEnd(_)
TrimEnd(s) ==
    IF s # <<>> /\ s[Len(s)] \in Whitespace
       THEN TrimEnd(SubSeq(s, 1, Len(s) - 1))
       ELSE s

\* String.prototype.trim
Trim(s) == TrimEnd(TrimStart(s))

Ellipsis == <<".", ".", ".">>

Quotes == {"'", "\""}

\* title.replace(/^['"](.*)['"]$/, "$1"): the texts of the model hold no
\* line terminator, so (.*) matches whatever lies between the two quotes
StripQuotes(t) ==
    IF Len(t) >= 2 /\ t[1] \in Quotes /\ t[Len(t)] \in Quotes
       THEN SubSeq(t, 2, Len(t) - 1)
       ELSE t

\* Array.prototype.slice(0, n)
Slice0(list, n) ==
    IF n >= 0 THEN SubSeq(list, 1, Min(n, Len(list)))
              ELSE SubSeq(list, 1, Max(Len(list) + n, 0))

\* String.prototype.split(/,\s*/), continued with the piece cur in progress
RECURSIVE SplitComma(_, _)
SplitComma(s, cur) ==
    IF s = <<>> THEN <<cur>>
    ELSE IF Head(s) = ","
            THEN <<cur>> \o SplitComma(TrimStart(Tail(s)), <<>>)
            ELSE SplitComma(Tail(s), Append(cur, Head(s)))

\* String.prototype.split(/\s+/)
RECURSIVE SplitSpace(_, _)
SplitSpace(s, cur) ==
    IF s = <<>> THEN <<cur>>
    ELSE IF Head(s) \in Whitespace
            THEN <<cur>> \o SplitSpace(TrimStart(Tail(s)), <<>>)
            ELSE SplitSpace(Tail(s), Append(cur, Head(s)))

NonEmpty(w) == Len(w) > 0

LongWord(w) == Len(w) > 5

\* String.prototype.toLowerCase, on the letters the model's texts hold
LowerChar(ch) ==
    CASE ch = "T" -> "t" [] ch = "R" -> "r" [] ch = "U" -> "u" [] ch = "E" -> "e"
      [] OTHER -> ch

ToLowerCase(s) == [k \in 1..Len(s) |-> LowerChar(s[k])]

(***************************************************************************)
(* The text operations: what each returns, from the provider's text or on  *)
(* the catch path.                                                         *)
(***************************************************************************)
\* options?.maxLength || 250 (0 stands for an absent or zero maxLength)
SummaryMaxLength(opt) == IF opt # 0 THEN opt ELSE DefaultSummaryMaxLength

\* lines 84-89
summaryOf(text, maxLength) ==
    LET summary == Trim(text)
    IN  IF Len(summary) > maxLength
           THEN Substring(summary, 0, maxLength - 3) \o Ellipsis
           ELSE summary

\* line 93
summaryFallback(content, maxLength) ==
    Substring(content, 0, maxLength - 3) \o Ellipsis

\* lines 125-133
titleOf(text, maxLength) ==
    LET title == StripQuotes(Trim(text))
    IN  IF Len(title) > maxLength
           THEN Substring(title, 0, maxLength - 3) \o Ellipsis
           ELSE title

Untitled == <<"U", "n", "t", "i", "t", "l", "e", "d">>

\* line 137: currentTitle || "Untitled"
titleFallback(currentTitle) ==
    IF currentTitle # <<>> THEN currentTitle ELSE Untitled

\* lines 162-171
keywordsOf(text, maxKeywords) ==
    LET pieces == SplitComma(Trim(text), <<>>)
        trimmed == [k \in 1..Len(pieces) |-> Trim(pieces[k])]
    IN  Slice0(SelectSeq(trimmed, NonEmpty), maxKeywords)

\* lines 175-178
keywordsFallback(content, maxKeywords) ==
    Slice0(SelectSeq(SplitSpace(content, <<>>), LongWord), maxKeywords)

\* lines 208-209
validateOf(text) == ToLowerCase(Trim(text)) = <<"t", "r", "u", "e">>

(***************************************************************************)
(* The texts the operations are given.                                     *)
(***************************************************************************)
Rep(ch, n) == [k \in 1..n |-> ch]

Pads == {<<>>, <<" ">>}

\* the quotes around a word: none, both, or an opening one only
QuoteMarks == {<<<<>>, <<>>>>, <<<<"\"">>, <<"\"">>>>, <<<<"\"">>, <<>>>>}

\* a word of up to MaxLen letters, quoted or not on either side, with or
\* without surrounding blanks
Texts ==
    {p \o q[1] \o Rep("a", n) \o q[2] \o p :
        p \in Pads, q \in QuoteMarks, n \in 0..MaxLen}

\* comma separated lists, and words of more than five letters
KeywordTexts ==
    { <<>>,
      <<"a", ",", " ", " ", "b", ",", ",", "c", " ">>,
      <<" ", ",", "a", " ", "b", ",", "c">>,
      Rep("a", 6) \o <<" ", " ">> \o Rep("b", 5) \o <<" ">> \o Rep("c", 7),
      <<" ">> \o Rep("a", 7) \o <<",">> \o Rep("b", 6) \o <<" ">> \o Rep("c", 6) }

ValidateTexts ==
    { <<"t", "r", "u", "e">>, <<" ", "T", "r", "u", "e", " ">>,
      <<"f", "a", "l", "s", "e">>, <<>> }

Calls == {1, 2}

IdleCall ==
    [pc |-> "idle", op |-> "none", content |-> <<>>, currentTitle |-> <<>>,
     max |-> 0, model |-> "", requests |-> 0, response |-> "none", text |-> <<>>,
     outcome |-> "none", str |-> <<>>, list |-> <<>>, bool |-> FALSE]

\* the request of an operation: generateText({model: deepseek(this.modelName), ...})
Request(c, op, content, currentTitle, max) ==
    [txt EXCEPT ![c] = [IdleCall EXCEPT !.pc = "requesting", !.op = op,
                                        !.content = content,
                                        !.currentTitle = currentTitle,
                                        !.max = max, !.model = modelName,
                                        !.requests = 1]]

\* the operation returns: r is "text" or the kind of error generateText threw
Return(c, r, text, str, list, bool) ==
    [txt EXCEPT ![c].pc = "done", ![c].response = r, ![c].text = text,
                ![c].outcome = "returned", ![c].str = str, ![c].list = list,
                ![c].bool = bool]

\* switchModel that takes any non-empty name
switchModel_noValidate(name) ==
    /\ modelName' = OrElse(name, modelName)
    /\ lastSwitch' = name
    /\ UNCHANGED <<dashscopeApiKey, configModel, img, remote, txt>>

\* lines 46-48
switchModel(name) ==
    /\ modelName' = OrElse(validateModel(name), modelName)
    /\ lastSwitch' = name
    /\ UNCHANGED <<dashscopeApiKey, configModel, img, remote, txt>>

\* lines 67-82
generateSummary(c, content, maxLengthOpt) ==
    /\ txt[c].pc = "idle"
    /\ txt' = Request(c, "summary", content, <<>>, SummaryMaxLength(maxLengthOpt))
    /\ UNCHANGED <<service, img, remote>>

\* the operation throws the error of its request
Throw(c, r) ==
    [txt EXCEPT ![c].pc = "done", ![c].response = r, ![c].outcome = "threw"]

\* generateSummaryReturn whose catch block throws the error again
generateSummaryReturn_rethrow(c, r, text) ==
    /\ txt[c].pc = "requesting" /\ txt[c].op = "summary"
    /\ IF r = "text"
          THEN txt' = Return(c, r, text, summaryOf(text, txt[c].max), <<>>, FALSE)
          ELSE txt' = Throw(c, r)
    /\ UNCHANGED <<service, img, remote>>

\* generateSummaryReturn whose catch block sends the request once more
generateSummaryReturn_retry(c, r, text) ==
    /\ txt[c].pc = "requesting" /\ txt[c].op = "summary"
    /\ IF r = "text"
          THEN txt' = Return(c, r, text, summaryOf(text, txt[c].max), <<>>, FALSE)
          ELSE IF r = "transient" /\ txt[c].requests < 2
                  THEN txt' = [txt EXCEPT ![c].requests = 2, ![c].response = r]
                  ELSE txt' = Return(c, r, <<>>,
                                     summaryFallback(txt[c].content, txt[c].max),
                                     <<>>, FALSE)
    /\ UNCHANGED <<service, img, remote>>

\* generateSummaryReturn whose catch block switches to the other model
generateSummaryReturn_switchOnFailure(c, r, text) ==
    /\ txt[c].pc = "requesting" /\ txt[c].op = "summary"
    /\ IF r = "text"
          THEN /\ txt' = Return(c, r, text, summaryOf(text, txt[c].max), <<>>, FALSE)
               /\ UNCHANGED modelName
          ELSE /\ txt' = Return(c, r, <<>>, summaryFallback(txt[c].content, txt[c].max),
                                <<>>, FALSE)
               /\ modelName' = "deepseek-chat"
    /\ UNCHANGED <<dashscopeApiKey, configModel, lastSwitch, img, remote>>

\* lines 83-94
generateSummaryReturn(c, r, text) ==
    /\ txt[c].pc = "requesting" /\ txt[c].op = "summary"
    /\ IF r = "text"
          THEN txt' = Return(c, r, text, summaryOf(text, txt[c].max), <<>>, FALSE)
          ELSE txt' = Return(c, r, <<>>, summaryFallback(txt[c].content, txt[c].max),
                             <<>>, FALSE)
    /\ UNCHANGED <<service, img, remote>>

\* lines 103-123
generateTitle(c, content, currentTitle, maxLength) ==
    /\ txt[c].pc = "idle"
    /\ txt' = Request(c, "title", content, currentTitle, maxLength)
    /\ UNCHANGED <<service, img, remote>>

\* lines 125-138
generateTitleReturn(c, r, text) ==
    /\ txt[c].pc = "requesting" /\ txt[c].op = "title"
    /\ IF r = "text"
          THEN txt' = Return(c, r, text, titleOf(text, txt[c].max), <<>>, FALSE)
          ELSE txt' = Return(c, r, <<>>, titleFallback(txt[c].currentTitle), <<>>, FALSE)
    /\ UNCHANGED <<service, img, remote>>

\* lines 146-160
generateKeywords(c, content, maxKeywords) ==
    /\ txt[c].pc = "idle"
    /\ txt' = Request(c, "keywords", content, <<>>, maxKeywords)
    /\ UNCHANGED <<service, img, remote>>

\* lines 162-179
generateKeywordsReturn(c, r, text) ==
    /\ txt[c].pc = "requesting" /\ txt[c].op = "keywords"
    /\ IF r = "text"
          THEN txt' = Return(c, r, text, <<>>, keywordsOf(text, txt[c].max), FALSE)
          ELSE txt' = Return(c, r, <<>>, <<>>,
                             keywordsFallback(txt[c].content, txt[c].max), FALSE)
    /\ UNCHANGED <<service, img, remote>>

\* lines 187-206
validateContent(c, content) ==
    /\ txt[c].pc = "idle"
    /\ txt' = Request(c, "validate", content, <<>>, 0)
    /\ UNCHANGED <<service, img, remote>>

\* lines 208-214
validateContentReturn(c, r, text) ==
    /\ txt[c].pc = "requesting" /\ txt[c].op = "validate"
    /\ IF r = "text"
          THEN txt' = Return(c, r, text, <<>>, <<>>, validateOf(text))
          ELSE txt' = Return(c, r, <<>>, <<>>, <<>>, FALSE)
    /\ UNCHANGED <<service, img, remote>>

\* the caller has the returned value; it may call again
callerContinues(c) ==
    /\ txt[c].pc = "done"
    /\ txt' = [txt EXCEPT ![c] = IdleCall]
    /\ UNCHANGED <<service, img, remote>>

TextResponses == ErrorKinds \cup {"text"}

(***************************************************************************)
(* generateImage: the locals of one invocation.                            *)
(***************************************************************************)
NoResult == [returned |-> FALSE, success |-> FALSE, url |-> "", error |-> FALSE,
             taskId |-> 0, localPath |-> FALSE]

\* the ImageResult object literals of generateImage
Failure(tid) == [returned |-> TRUE, success |-> FALSE, url |-> "", error |-> TRUE,
                 taskId |-> tid, localPath |-> FALSE]

Success(tid, url, lp) == [returned |-> TRUE, success |-> TRUE, url |-> url,
                          error |-> FALSE, taskId |-> tid, localPath |-> lp]

IdleInvocation ==
    [pc |-> "idle", maxAttempts |-> 0, localPath |-> FALSE, taskId |-> 0,
     attempts |-> 0, imageUrl |-> "", pollOutcome |-> "none",
     events |-> <<>>, result |-> NoResult]

\* one entry of the invocation's history: a request sent (create, status,
\* download) with what came back, or one wait of checkInterval
Event(kind, task, outcome) == [kind |-> kind, task |-> task, outcome |-> outcome]

Append1(i, e) == Append(img[i].events, e)

Init ==
    /\ configModel \in ModelNames
    /\ modelName = Constructor(configModel)
    /\ lastSwitch = "none"
    /\ dashscopeApiKey \in {"", "sk-key"}
    /\ img = [i \in Invocations |-> IdleInvocation]
    /\ remote = [t \in TaskIds |-> "none"]
    /\ txt = [c \in Calls |-> IdleCall]

\* generateImage without the key check
generateImage_noKeyCheck(i, maxAttemptsOpt, localPathOpt) ==
    /\ img[i].pc = "idle"
    /\ img' = [img EXCEPT ![i].pc = "creating",
                          ![i].maxAttempts = maxAttemptsOpt,
                          ![i].localPath = localPathOpt]
    /\ UNCHANGED <<service, remote, txt>>

\* lines 222-274: the key check, then the create request is sent
generateImage(i, maxAttemptsOpt, localPathOpt) ==
    /\ img[i].pc = "idle"
    /\ IF dashscopeApiKey = ""
          THEN img' = [img EXCEPT ![i].pc = "done", ![i].result = Failure(0)]
          ELSE img' = [img EXCEPT ![i].pc = "creating",
                                  ![i].maxAttempts = maxAttemptsOpt,
                                  ![i].localPath = localPathOpt]
    /\ UNCHANGED <<service, remote, txt>>

FreshTask == CHOOSE t \in TaskIds : remote[t] = "none"

\* lines 254-291, 342-350: the create request's response
createTaskResponse(i, r) ==
    /\ img[i].pc = "creating"
    /\ CASE r \in ErrorKinds ->
              /\ img' = [img EXCEPT ![i].pc = "done",
                                    ![i].events = Append1(i, Event("create", 0, r)),
                                    ![i].result = Failure(0)]
              /\ UNCHANGED remote
         [] r = "noTaskId" ->
              /\ img' = [img EXCEPT ![i].pc = "done",
                                    ![i].events = Append1(i, Event("create", 0, "ok")),
                                    ![i].result = Failure(0)]
              /\ UNCHANGED remote
         [] r = "taskId" ->
              /\ img' = [img EXCEPT ![i].pc = "created",
                                    ![i].events = Append1(i, Event("create", FreshTask, "ok")),
                                    ![i].taskId = FreshTask]
              /\ remote' = [remote EXCEPT ![FreshTask] = "PENDING"]
    /\ UNCHANGED <<service, txt>>

CreateResponses == ErrorKinds \cup {"noTaskId", "taskId"}

\* lines 294-298, 360-367: getDashScopeImageResult is entered
startPolling(i) ==
    /\ img[i].pc = "created"
    /\ img' = [img EXCEPT ![i].pc = "loop", ![i].attempts = 0]
    /\ UNCHANGED <<service, remote, txt>>

\* what the poller returns to generateImage
Returned(i, outcome, url) ==
    [img EXCEPT ![i].pc = "polled", ![i].pollOutcome = outcome, ![i].imageUrl = url]

\* pollLoop with the loop test attempts <= maxAttempts
pollLoop_offByOne(i) ==
    /\ img[i].pc = "loop"
    /\ IF img[i].attempts <= img[i].maxAttempts
          THEN img' = [img EXCEPT ![i].pc = "checking",
                                  ![i].attempts = img[i].attempts + 1]
          ELSE img' = Returned(i, "TimedOut", "")
    /\ UNCHANGED <<service, remote, txt>>

\* pollLoop that stops the remote job when it gives up
pollLoop_cancelOnTimeout(i) ==
    /\ img[i].pc = "loop"
    /\ IF img[i].attempts < img[i].maxAttempts
          THEN /\ img' = [img EXCEPT ![i].pc = "checking",
                                     ![i].attempts = img[i].attempts + 1]
               /\ UNCHANGED remote
          ELSE /\ img' = [Returned(i, "TimedOut", "") EXCEPT
                             ![i].events = Append1(i, Event("cancel", img[i].taskId, "ok"))]
               /\ remote' = [remote EXCEPT ![img[i].taskId] = "FAILED"]
    /\ UNCHANGED <<service, txt>>

\* lines 369-381 and 416-417: the loop test; a status check is sent or the
\* poller gives up
pollLoop(i) ==
    /\ img[i].pc = "loop"
    /\ IF img[i].attempts < img[i].maxAttempts
          THEN img' = [img EXCEPT ![i].pc = "checking",
                                  ![i].attempts = img[i].attempts + 1]
          ELSE img' = Returned(i, "TimedOut", "")
    /\ UNCHANGED <<service, remote, txt>>

\* statusResponse that waits and checks again after a transient request error
statusResponse_retryTransient(i, r, results) ==
    /\ img[i].pc = "checking"
    /\ LET t == img[i].taskId
           status == remote[t]
           logged(o) == [img EXCEPT ![i].events = Append1(i, Event("status", t, o))]
           ret(o, outcome, url) ==
               [logged(o) EXCEPT ![i].pc = "polled", ![i].pollOutcome = outcome,
                                 ![i].imageUrl = url]
       IN  CASE r = "fatal" -> img' = ret(r, "Error", "")
             [] r = "transient" -> img' = [logged(r) EXCEPT ![i].pc = "waiting"]
             [] r = "malformed" -> img' = ret("malformed", "Malformed", "")
             [] r = "status" /\ status = "SUCCEEDED" ->
                    img' = ret(status, "Succeeded",
                               IF results = "url" THEN "url" ELSE "")
             [] r = "status" /\ status = "FAILED" -> img' = ret(status, "Failed", "")
             [] OTHER ->
                    img' = [logged(status) EXCEPT ![i].pc = "waiting"]
    /\ UNCHANGED <<service, remote, txt>>

\* statusResponse that takes every status but RUNNING and SUCCEEDED for a failure
statusResponse_pendingFails(i, r, results) ==
    /\ img[i].pc = "checking"
    /\ LET t == img[i].taskId
           status == remote[t]
           logged(o) == [img EXCEPT ![i].events = Append1(i, Event("status", t, o))]
           ret(o, outcome, url) ==
               [logged(o) EXCEPT ![i].pc = "polled", ![i].pollOutcome = outcome,
                                 ![i].imageUrl = url]
       IN  CASE r \in ErrorKinds -> img' = ret(r, "Error", "")
             [] r = "malformed" -> img' = ret("malformed", "Malformed", "")
             [] r = "status" /\ status = "SUCCEEDED" ->
                    img' = ret(status, "Succeeded",
                               IF results = "url" THEN "url" ELSE "")
             [] r = "status" /\ status # "RUNNING" -> img' = ret(status, "Failed", "")
             [] OTHER ->
                    img' = [logged(status) EXCEPT ![i].pc = "waiting"]
    /\ UNCHANGED <<service, remote, txt>>

\* statusResponse of a service that keeps the id of its task in a field of
\* the instance: the check is for the task created last
statusResponse_latestTask(i, r, results) ==
    /\ img[i].pc = "checking"
    /\ LET t == CHOOSE x \in TaskIds :
                   remote[x] # "none" /\ \A u \in TaskIds : u > x => remote[u] = "none"
           status == remote[t]
           logged(o) == [img EXCEPT ![i].events = Append1(i, Event("status", t, o))]
           ret(o, outcome, url) ==
               [logged(o) EXCEPT ![i].pc = "polled", ![i].pollOutcome = outcome,
                                 ![i].imageUrl = url]
       IN  CASE r \in ErrorKinds -> img' = ret(r, "Error", "")
             [] r = "malformed" -> img' = ret("malformed", "Malformed", "")
             [] r = "status" /\ status = "SUCCEEDED" ->
                    img' = ret(status, "Succeeded",
                               IF results = "url" THEN "url" ELSE "")
             [] r = "status" /\ status = "FAILED" -> img' = ret(status, "Failed", "")
             [] OTHER ->
                    img' = [logged(status) EXCEPT ![i].pc = "waiting"]
    /\ UNCHANGED <<service, remote, txt>>

\* statusResponse that goes on to the next status check without the wait
statusResponse_noDelay(i, r, results) ==
    /\ img[i].pc = "checking"
    /\ LET t == img[i].taskId
           status == remote[t]
           logged(o) == [img EXCEPT ![i].events = Append1(i, Event("status", t, o))]
           ret(o, outcome, url) ==
               [logged(o) EXCEPT ![i].pc = "polled", ![i].pollOutcome = outcome,
                                 ![i].imageUrl = url]
       IN  CASE r \in ErrorKinds -> img' = ret(r, "Error", "")
             [] r = "malformed" -> img' = ret("malformed", "Malformed", "")
             [] r = "status" /\ status = "SUCCEEDED" ->
                    img' = ret(status, "Succeeded",
                               IF results = "url" THEN "url" ELSE "")
             [] r = "status" /\ status = "FAILED" -> img' = ret(status, "Failed", "")
             [] OTHER ->
                    img' = [logged(status) EXCEPT ![i].pc = "loop"]
    /\ UNCHANGED <<service, remote, txt>>

\* lines 383-413, 418-421: the status check's response.  r is an error kind,
\* "malformed" (no data or no output) or "status": task_status is the remote
\* job's, results is "none" (absent or empty), "emptyUrl" or "url"
statusResponse(i, r, results) ==
    /\ img[i].pc = "checking"
    /\ LET t == img[i].taskId
           status == remote[t]
           logged(o) == [img EXCEPT ![i].events = Append1(i, Event("status", t, o))]
           ret(o, outcome, url) ==
               [logged(o) EXCEPT ![i].pc = "polled", ![i].pollOutcome = outcome,
                                 ![i].imageUrl = url]
       IN  CASE r \in ErrorKinds -> img' = ret(r, "Error", "")
             [] r = "malformed" -> img' = ret("malformed", "Malformed", "")
             [] r = "status" /\ status = "SUCCEEDED" ->
                    img' = ret(status, "Succeeded",
                               IF results = "url" THEN "url" ELSE "")
             [] r = "status" /\ status = "FAILED" -> img' = ret(status, "Failed", "")
             [] OTHER ->
                    img' = [logged(status) EXCEPT ![i].pc = "waiting"]
    /\ UNCHANGED <<service, remote, txt>>

StatusResponses == ErrorKinds \cup {"malformed", "status"}
ResultShapes == {"none", "emptyUrl", "url"}

\* lines 413, 452-454: the timer of delay(checkInterval) fires
delay(i) ==
    /\ img[i].pc = "waiting"
    /\ img' = [img EXCEPT ![i].pc = "loop",
                          ![i].events = Append1(i, Event("wait", img[i].taskId, "ok"))]
    /\ UNCHANGED <<service, remote, txt>>

\* pollReturned that polls again when the poller returned no URL
pollReturned_pollAgain(i) ==
    /\ img[i].pc = "polled"
    /\ IF img[i].imageUrl = ""
          THEN IF img[i].attempts < img[i].maxAttempts
                  THEN img' = [img EXCEPT ![i].pc = "loop"]
                  ELSE img' = [img EXCEPT ![i].pc = "done",
                                          ![i].result = Failure(img[i].taskId)]
          ELSE IF img[i].localPath
                  THEN img' = [img EXCEPT ![i].pc = "downloading"]
                  ELSE img' = [img EXCEPT ![i].pc = "done",
                                  ![i].result = Success(img[i].taskId, img[i].imageUrl, FALSE)]
    /\ UNCHANGED <<service, remote, txt>>

\* pollReturned that downloads to localPath whatever the poller returned
pollReturned_downloadAlways(i) ==
    /\ img[i].pc = "polled"
    /\ IF img[i].localPath
          THEN img' = [img EXCEPT ![i].pc = "downloading"]
          ELSE IF img[i].imageUrl = ""
                  THEN img' = [img EXCEPT ![i].pc = "done",
                                          ![i].result = Failure(img[i].taskId)]
                  ELSE img' = [img EXCEPT ![i].pc = "done",
                                  ![i].result = Success(img[i].taskId, img[i].imageUrl, FALSE)]
    /\ UNCHANGED <<service, remote, txt>>

\* lines 300-341: the poller has returned imageUrl
pollReturned(i) ==
    /\ img[i].pc = "polled"
    /\ IF img[i].imageUrl = ""
          THEN img' = [img EXCEPT ![i].pc = "done",
                                  ![i].result = Failure(img[i].taskId)]
          ELSE IF img[i].localPath
                  THEN img' = [img EXCEPT ![i].pc = "downloading"]
                  ELSE img' = [img EXCEPT ![i].pc = "done",
                                  ![i].result = Success(img[i].taskId, img[i].imageUrl, FALSE)]
    /\ UNCHANGED <<service, remote, txt>>

\* downloadImage whose error is caught by the catch block of generateImage's
\* outer try, which returns no taskId
downloadImage_outerCatch(i, r) ==
    /\ img[i].pc = "downloading"
    /\ LET sent(o) == Append1(i, Event("download", img[i].taskId, o))
       IN  CASE r = "dirError" ->
                    img' = [img EXCEPT ![i].pc = "done", ![i].result = Failure(0)]
             [] r \in ErrorKinds ->
                    img' = [img EXCEPT ![i].pc = "done", ![i].events = sent(r),
                                       ![i].result = Failure(0)]
             [] r = "writeError" ->
                    img' = [img EXCEPT ![i].pc = "done", ![i].events = sent("ok"),
                                       ![i].result = Failure(0)]
             [] r = "ok" ->
                    img' = [img EXCEPT ![i].pc = "done", ![i].events = sent("ok"),
                                       ![i].result = Success(img[i].taskId, img[i].imageUrl, TRUE)]
    /\ UNCHANGED <<service, remote, txt>>

\* lines 313-333, 429-446: downloadImage.  r is "dirError" (ensureDir throws,
\* before any request), an error kind of the GET, "writeError" or "ok"
downloadImage(i, r) ==
    /\ img[i].pc = "downloading"
    /\ LET sent(o) == Append1(i, Event("download", img[i].taskId, o))
       IN  CASE r = "dirError" ->
                    img' = [img EXCEPT ![i].pc = "done",
                                       ![i].result = Failure(img[i].taskId)]
             [] r \in ErrorKinds ->
                    img' = [img EXCEPT ![i].pc = "done", ![i].events = sent(r),
                                       ![i].result = Failure(img[i].taskId)]
             [] r = "writeError" ->
                    img' = [img EXCEPT ![i].pc = "done", ![i].events = sent("ok"),
                                       ![i].result = Failure(img[i].taskId)]
             [] r = "ok" ->
                    img' = [img EXCEPT ![i].pc = "done", ![i].events = sent("ok"),
                                       ![i].result = Success(img[i].taskId, img[i].imageUrl, TRUE)]
    /\ UNCHANGED <<service, remote, txt>>

DownloadResponses == ErrorKinds \cup {"dirError", "writeError", "ok"}

\* the remote job runs on its own
RemoteProgress(t) ==
    /\ \/ remote[t] = "PENDING" /\ remote' = [remote EXCEPT ![t] = "RUNNING"]
       \/ remote[t] = "RUNNING" /\ remote' = [remote EXCEPT ![t] = "SUCCEEDED"]
       \/ remote[t] = "RUNNING" /\ remote' = [remote EXCEPT ![t] = "FAILED"]
    /\ UNCHANGED <<service, img, txt>>

\* options.maxAttempts: undefined takes the default
MaxAttemptsOptions == (-1 .. MaxN) \cup {DefaultMaxAttempts}

Remote == \E t \in TaskIds : RemoteProgress(t)

\* the steps by which the invocations in I go on once called
ImageProgress(I) ==
    \/ \E i \in I, r \in CreateResponses : createTaskResponse(i, r)
    \/ \E i \in I : startPolling(i)
    \/ \E i \in I : pollLoop(i)
    \/ \E i \in I, r \in StatusResponses, rs \in ResultShapes :
          statusResponse(i, r, rs)
    \/ \E i \in I : delay(i)
    \/ \E i \in I : pollReturned(i)
    \/ \E i \in I, r \in DownloadResponses : downloadImage(i, r)

\* the maxLength arguments: 0 is an absent one of generateSummary
MaxLengths == 0..MaxLen

MaxKeywordsOptions == {-1, 0, 1, 2, DefaultMaxKeywords}

\* the calls of the text operations by the calls in C: the texts are from T,
\* the maxLength arguments from L, the texts of keywords from K, maxKeywords
\* from M
TextCalls(C, T, L, K, M) ==
    \/ \E c \in C, content \in T, m \in L : generateSummary(c, content, m)
    \/ \E c \in C, cur \in T, m \in L \cup {DefaultTitleMaxLength} :
          generateTitle(c, Rep("a", MaxLen), cur, m)
    \/ \E c \in C, content \in K, m \in M : generateKeywords(c, content, m)
    \/ \E c \in C, content \in T : validateContent(c, content)

\* the provider's responses to the calls in C
TextReturns(C, T, K) ==
    \/ \E c \in C, r \in TextResponses, t \in T : generateSummaryReturn(c, r, t)
    \/ \E c \in C, r \in TextResponses, t \in T : generateTitleReturn(c, r, t)
    \/ \E c \in C, r \in TextResponses, t \in K : generateKeywordsReturn(c, r, t)
    \/ \E c \in C, r \in TextResponses, t \in ValidateTexts :
          validateContentReturn(c, r, t)

ImageQuiet == \A i \in Invocations : img[i].pc = "idle"

TextQuiet == \A c \in Calls : txt[c].pc = "idle"

(***************************************************************************)
(* Spec: one generateImage invocation, with any maxAttempts option, while  *)
(* the remote job runs.                                                    *)
(***************************************************************************)
Next ==
    \/ \E n \in MaxAttemptsOptions, lp \in BOOLEAN : generateImage(1, n, lp)
    \/ ImageProgress({1})
    \/ Remote

Spec == Init /\ [][Next]_vars

(***************************************************************************)
(* FairSpec: Spec where every remote request and every interval wait       *)
(* completes.                                                              *)
(***************************************************************************)
FairSpec == Spec /\ WF_vars(ImageProgress({1}))

(***************************************************************************)
(* TextSpec: one text operation, on any of the texts.                      *)
(***************************************************************************)
TextNext ==
    \/ TextCalls({1}, Texts, MaxLengths, KeywordTexts, MaxKeywordsOptions)
    \/ TextReturns({1}, Texts, KeywordTexts)

TextSpec == Init /\ [][TextNext]_vars

(***************************************************************************)
(* ServiceSpec: a caller uses a fresh service for one operation, a         *)
(* generateImage invocation or a text operation.                           *)
(***************************************************************************)
ServiceNext ==
    \/ TextQuiet /\ Next
    \/ ImageQuiet /\ TextNext

ServiceSpec == Init /\ [][ServiceNext]_vars

(***************************************************************************)
(* ModelSpec: model switches around the text operations of one caller, on  *)
(* two texts.                                                              *)
(***************************************************************************)
ConcTexts == {<<"a">>, <<" ", "\"">> \o Rep("a", MaxLen + 1) \o <<"\"", " ">>}

ConcMaxLengths == {0, 3}

ConcKeywordTexts == {<<"a", ",", " ", "b">>, Rep("a", 6) \o <<" ">> \o Rep("b", 7)}

ModelNext ==
    \/ \E name \in ModelNames : switchModel(name)
    \/ TextCalls({1}, ConcTexts, ConcMaxLengths, ConcKeywordTexts, {1})
    \/ TextReturns({1}, ConcTexts, ConcKeywordTexts)
    \/ callerContinues(1)

ModelSpec == Init /\ [][ModelNext]_vars

(***************************************************************************)
(* TextConcSpec: the text operations of two callers, interleaved at their  *)
(* requests, each caller making one call after the other.                  *)
(***************************************************************************)
TextConcNext ==
    \/ TextCalls(Calls, ConcTexts, ConcMaxLengths, ConcKeywordTexts, {1})
    \/ TextReturns(Calls, ConcTexts, ConcKeywordTexts)
    \/ \E c \in Calls : callerContinues(c)

TextConcSpec == Init /\ [][TextConcNext]_vars

(***************************************************************************)
(* ImageConcSpec: two generateImage invocations on the one service,        *)
(* interleaved at their awaits, while their remote jobs run.               *)
(***************************************************************************)
\* options.maxAttempts of the two invocations: the first is allowed more
\* status checks than the second
ConcMaxAttempts == [i \in Invocations |-> IF i = 1 THEN 2 ELSE 1]

ImageConcNext ==
    \/ \E i \in Invocations, lp \in BOOLEAN : generateImage(i, ConcMaxAttempts[i], lp)
    \/ ImageProgress(Invocations)
    \/ Remote

ImageConcSpec == Init /\ [][ImageConcNext]_vars

(***************************************************************************)
(* The history of an invocation, and the GenerationTask status it is in.   *)
(***************************************************************************)
IsStatus(e) == e.kind = "status"

IsPoll(e) == e.kind \in {"status", "wait"}

IsCreate(e) == e.kind = "create"

\* the status checks the invocation has sent: those answered and the one in flight
NumChecks(r) ==
    Len(SelectSeq(r.events, IsStatus)) + (IF r.pc = "checking" THEN 1 ELSE 0)

\* a status check's answer that is a status other than SUCCEEDED and FAILED
NonTerminal(e) == e.outcome \in TaskStatuses \ {"SUCCEEDED", "FAILED"}

OnlyNonTerminal(r) ==
    \A k \in 1..Len(r.events) : IsStatus(r.events[k]) => NonTerminal(r.events[k])

\* getDashScopeImageResult has returned
PollEnded(r) == r.taskId # 0 /\ r.pc \in {"polled", "downloading", "done"}

\* the status of the invocation's task: Created from the create response to
\* the poller's entry, Polling inside the poller, then what the poller ended
\* with; a poller ended by a malformed response or a request error has
\* returned null as for a failed task
LifecycleOf(r) ==
    CASE r.taskId = 0 -> "None"
      [] r.taskId # 0 /\ r.pc = "created" -> "Created"
      [] r.taskId # 0 /\ r.pc \in {"loop", "checking", "waiting"} -> "Polling"
      [] OTHER -> IF r.pollOutcome \in {"Succeeded", "TimedOut"}
                     THEN r.pollOutcome
                     ELSE "Failed"

EndStates == {"Succeeded", "Failed", "TimedOut"}

LifecycleTransitions ==
    {<<"None", "Created">>, <<"Created", "Polling">>} \cup
    {<<"Polling", e>> : e \in EndStates}

(***************************************************************************)
(* C1. Poller termination: when the task was created, maxAttempts is N >= 1*)
(* and every status check answers a status that is neither SUCCEEDED nor   *)
(* FAILED, the poller never sends more than N status checks, ends only     *)
(* after exactly N of them, ends timed out (it returns null), and          *)
(* generateImage returns success = false.                                  *)
(***************************************************************************)
PollerTermination ==
    \A i \in Invocations :
       LET r == img[i]
       IN  (r.taskId # 0 /\ r.maxAttempts >= 1 /\ OnlyNonTerminal(r)) =>
              /\ NumChecks(r) <= r.maxAttempts
              /\ PollEnded(r) => /\ NumChecks(r) = r.maxAttempts
                                 /\ r.pollOutcome = "TimedOut"
                                 /\ r.imageUrl = ""
              /\ r.pc = "done" => r.result.returned /\ ~r.result.success

\* the spec's case: maxAttempts = 3, three non-terminal answers, timed out
PollerTerminationWitness ==
    \E i \in Invocations :
       /\ img[i].pc = "done" /\ img[i].maxAttempts = 3
       /\ OnlyNonTerminal(img[i]) /\ NumChecks(img[i]) = 3
       /\ img[i].pollOutcome = "TimedOut" /\ ~img[i].result.success

(***************************************************************************)
(* C2. The task's status changes only along Created -> Polling ->          *)
(* {Succeeded, Failed, TimedOut}: a status check is sent only while        *)
(* Polling, for a task the create request returned an id for; and once the *)
(* poller has ended no status check is sent, no wait is made and the       *)
(* invocation is never back in the poller.                                 *)
(***************************************************************************)
TaskLifecycle ==
    [][\A i \in Invocations :
          LET a == img[i]
              b == img'[i]
          IN  /\ LifecycleOf(a) # LifecycleOf(b) =>
                    <<LifecycleOf(a), LifecycleOf(b)>> \in LifecycleTransitions
              /\ (b.pc = "checking" /\ a.pc # "checking") =>
                    /\ LifecycleOf(a) = "Polling"
                    /\ remote[a.taskId] # "none"
                    /\ \E k \in 1..Len(a.events) :
                          IsCreate(a.events[k]) /\ a.events[k].task = a.taskId
              /\ LifecycleOf(a) \in EndStates =>
                    /\ SelectSeq(b.events, IsPoll) = SelectSeq(a.events, IsPoll)
                    /\ b.pc \in {"polled", "downloading", "done"}]_vars

\* a task that succeeded after several checks, its invocation gone on to the end
TaskLifecycleWitness ==
    \E i \in Invocations :
       /\ img[i].pc = "done" /\ LifecycleOf(img[i]) = "Succeeded"
       /\ NumChecks(img[i]) >= 2 /\ img[i].result.success

(***************************************************************************)
(* C3. Bounded polling: an invocation sends at most maxAttempts status     *)
(* checks, none when maxAttempts <= 0, whatever the responses are; and     *)
(* when every request and every wait completes, an invocation that was     *)
(* called returns an ImageResult.                                          *)
(***************************************************************************)
BoundedPolling ==
    /\ [](\A i \in Invocations : NumChecks(img[i]) <= Max(img[i].maxAttempts, 0))
    /\ \A i \in Invocations :
          (img[i].pc # "idle") ~> (img[i].pc = "done" /\ img[i].result.returned)

\* the default bound used up: 15 status checks, then the result
BoundedPollingWitness ==
    \E i \in Invocations :
       /\ img[i].pc = "done" /\ img[i].result.returned
       /\ img[i].maxAttempts = DefaultMaxAttempts
       /\ NumChecks(img[i]) = DefaultMaxAttempts
       /\ img[i].pollOutcome = "TimedOut"

(***************************************************************************)
(* C4. No remote cancel: the requests of an invocation are one create      *)
(* request, sent first, status checks, and the download of the result     *)
(* once the task has succeeded with a URL; no step of an invocation        *)
(* changes the status of a remote job, so a job goes on after the          *)
(* invocation has given it up.                                             *)
(***************************************************************************)
NoRemoteCancel ==
    [][\A i \in Invocations :
          LET a == img[i]
              b == img'[i]
          IN  /\ \A k \in 1..Len(b.events) :
                    /\ b.events[k].kind \in {"create", "status", "wait", "download"}
                    /\ IsCreate(b.events[k]) <=> k = 1
                    /\ b.events[k].kind = "download" =>
                          b.pollOutcome = "Succeeded" /\ b.imageUrl # ""
              /\ a # b => \A t \in TaskIds : remote[t] # "none" => remote'[t] = remote[t]]_vars

\* a task given up on timeout whose remote job is still running
NoRemoteCancelWitness ==
    \E i \in Invocations :
       /\ img[i].pc = "done" /\ img[i].pollOutcome = "TimedOut"
       /\ NumChecks(img[i]) >= 1
       /\ remote[img[i].taskId] = "RUNNING"

(***************************************************************************)
(* The value a text operation returns.                                     *)
(***************************************************************************)
Enrichments == {"summary", "title", "keywords"}

Failed(t) == t.pc = "done" /\ t.response \in ErrorKinds

\* what the operation op returns for its arguments and its own response
ValueOf(t, r, text) ==
    CASE t.op = "summary" ->
            <<IF r = "text" THEN summaryOf(text, t.max)
                            ELSE summaryFallback(t.content, t.max), <<>>, FALSE>>
      [] t.op = "title" ->
            <<IF r = "text" THEN titleOf(text, t.max)
                            ELSE titleFallback(t.currentTitle), <<>>, FALSE>>
      [] t.op = "keywords" ->
            <<<<>>, IF r = "text" THEN keywordsOf(text, t.max)
                                  ELSE keywordsFallback(t.content, t.max), FALSE>>
      [] OTHER -> <<<<>>, <<>>, r = "text" /\ validateOf(text)>>

(***************************************************************************)
(* C5, as claimed: a text operation whose provider request failed ends     *)
(* with an error its caller sees.                                          *)
(***************************************************************************)
TextFailureVisible ==
    \A c \in Calls :
       (Failed(txt[c]) /\ txt[c].op \in Enrichments) => txt[c].outcome = "threw"

(***************************************************************************)
(* C5, amended: a text operation whose provider request failed returns     *)
(* normally, with its fallback value: the first maxLength - 3 characters   *)
(* of the content and "..." (summary), the current title or "Untitled"     *)
(* (title), words of the content longer than five characters (keywords).   *)
(***************************************************************************)
TextFailureFallback ==
    \A c \in Calls :
       LET t == txt[c]
           kept == Min(Len(t.content), Max(t.max - 3, 0))
       IN  (Failed(t) /\ t.op \in Enrichments) =>
              /\ t.outcome = "returned"
              /\ t.op = "summary" =>
                    /\ Len(t.str) = kept + 3
                    /\ SubSeq(t.str, 1, kept) = SubSeq(t.content, 1, kept)
                    /\ SubSeq(t.str, kept + 1, kept + 3) = Ellipsis
              /\ t.op = "title" =>
                    t.str = (IF t.currentTitle = <<>> THEN Untitled ELSE t.currentTitle)
              /\ t.op = "keywords" =>
                    /\ \A k \in 1..Len(t.list) :
                          /\ Len(t.list[k]) > 5
                          /\ \A j \in 1..Len(t.list[k]) : t.list[k][j] \notin Whitespace
                    /\ t.max >= 0 => Len(t.list) <= t.max

\* a failed summary request with a fallback summary returned
TextFailureFallbackWitness ==
    \E c \in Calls :
       /\ Failed(txt[c]) /\ txt[c].op = "summary" /\ txt[c].outcome = "returned"
       /\ txt[c].max = 3 /\ Len(txt[c].content) > 3 /\ txt[c].str = Ellipsis

(***************************************************************************)
(* C6, as claimed: an operation does not end on the first transient        *)
(* failure of a request; the request is sent again (for a status check,    *)
(* as long as maxAttempts allows another one).                             *)
(***************************************************************************)
TransientRetried ==
    /\ \A i \in Invocations :
          LET r == img[i]
              n == Len(r.events)
          IN  (r.pc = "done" /\ n > 0 /\ r.events[n].outcome = "transient"
                 /\ (IsStatus(r.events[n]) => NumChecks(r) < r.maxAttempts)) =>
                 \E k \in 1..(n - 1) :
                    /\ r.events[k].kind = r.events[n].kind
                    /\ r.events[k].outcome = "transient"
    /\ \A c \in Calls :
          (txt[c].pc = "done" /\ txt[c].response = "transient") => txt[c].requests > 1

(***************************************************************************)
(* C6, amended: the failure of a remote request, transient or fatal, ends  *)
(* the operation at its first occurrence with no retry: no request of the  *)
(* invocation follows a failed one and generateImage returns success =     *)
(* false; a text operation has sent its one request and returns.           *)
(***************************************************************************)
FailureEndsOperation ==
    /\ \A i \in Invocations :
          LET r == img[i]
          IN  \A k \in 1..Len(r.events) :
                 r.events[k].outcome \in ErrorKinds =>
                    /\ k = Len(r.events)
                    /\ r.pc \in {"polled", "done"}
                    /\ r.pc = "done" => r.result.returned /\ ~r.result.success
    /\ \A c \in Calls :
          txt[c].response \in ErrorKinds =>
             txt[c].pc = "done" /\ txt[c].requests = 1 /\ txt[c].outcome = "returned"

\* a transient failure of the second status check of three allowed ends the
\* invocation
FailureEndsOperationWitness ==
    \E i \in Invocations :
       /\ img[i].pc = "done" /\ img[i].maxAttempts = 3 /\ NumChecks(img[i]) = 2
       /\ img[i].events[Len(img[i].events)] = Event("status", img[i].taskId, "transient")
       /\ ~img[i].result.success

(***************************************************************************)
(* C7. Enrichment sub-steps are independent: a step of one text call, its  *)
(* failure included, changes neither the service's state nor any other     *)
(* call, and what a call returns is the value of its own arguments and     *)
(* its own provider response.                                              *)
(***************************************************************************)
EnrichmentIndependence ==
    [][\A c \in Calls :
          txt'[c] # txt[c] =>
             /\ service' = service /\ img' = img /\ remote' = remote
             /\ \A d \in Calls \ {c} : txt'[d] = txt[d]
             /\ txt'[c].pc = "done" =>
                   /\ txt'[c].outcome = "returned"
                   /\ <<txt'[c].str, txt'[c].list, txt'[c].bool>> =
                         ValueOf(txt[c], txt'[c].response, txt'[c].text)]_vars

\* one call's request failed; the other call has its value from its response
EnrichmentIndependenceWitness ==
    \E c \in Calls, d \in Calls :
       /\ Failed(txt[c]) /\ txt[c].op = "summary"
       /\ txt[d].pc = "done" /\ txt[d].op = "keywords" /\ txt[d].response = "text"
       /\ txt[d].list = <<<<"a">>>>

(***************************************************************************)
(* C8, as claimed: the model is chosen once, at construction: it is the    *)
(* selected model from then on, and the model of every request.            *)
(***************************************************************************)
ModelChosenOnce ==
    /\ modelName = Constructor(configModel)
    /\ \A c \in Calls : txt[c].pc # "idle" => txt[c].model = Constructor(configModel)

(***************************************************************************)
(* C8, amended: the model of a request is the model selected when the      *)
(* request is made, and stays the request's; the selected model is one of  *)
(* the available models: the one selected at construction until            *)
(* switchModel is called, the one named by the latest switchModel call     *)
(* when it names an available model, and unchanged by a call that names    *)
(* none.                                                                   *)
(***************************************************************************)
SelectedModelUsed ==
    [][/\ modelName' \in AVAILABLE_MODELS
       /\ lastSwitch' = "none" => modelName' = Constructor(configModel')
       /\ lastSwitch' \in AVAILABLE_MODELS => modelName' = lastSwitch'
       /\ lastSwitch' \notin AVAILABLE_MODELS => modelName' = modelName
       /\ \A c \in Calls :
             /\ (txt[c].pc = "idle" /\ txt'[c].pc = "requesting") =>
                   txt'[c].model = modelName
             /\ (txt[c].pc = "requesting" /\ txt'[c].pc # "idle") =>
                   txt'[c].model = txt[c].model]_vars

\* a request made with a model switched to after construction, the latest
\* switchModel call naming no available model
SelectedModelUsedWitness ==
    \E c \in Calls :
       /\ txt[c].pc = "requesting" /\ txt[c].model = "deepseek-chat"
       /\ Constructor(configModel) = "deepseek-reasoner"
       /\ lastSwitch = "gpt-4" /\ modelName = "deepseek-chat"

(***************************************************************************)
(* C9, as claimed: generateSummary returns at most maxLength characters,   *)
(* for every content, provider outcome and maxLength >= 1.                 *)
(***************************************************************************)
SummaryWithinMaxLength ==
    \A c \in Calls :
       (txt[c].pc = "done" /\ txt[c].op = "summary" /\ txt[c].max >= 1) =>
          Len(txt[c].str) <= txt[c].max

(***************************************************************************)
(* C10, as claimed: generateTitle returns at most maxLength characters,    *)
(* for every content, current title and provider outcome.                  *)
(***************************************************************************)
TitleWithinMaxLength ==
    \A c \in Calls :
       (txt[c].pc = "done" /\ txt[c].op = "title") => Len(txt[c].str) <= txt[c].max

(***************************************************************************)
(* C11. Without the image provider's API key image generation does not     *)
(* work: every generateImage call returns success = false with an error,   *)
(* and no remote request is sent (no create request, no status check, no   *)
(* download) and no remote job exists.                                     *)
(***************************************************************************)
NoKeyNoRequest ==
    dashscopeApiKey = "" =>
       /\ \A i \in Invocations :
             /\ img[i].events = <<>>
             /\ img[i].pc \in {"idle", "done"}
             /\ img[i].pc = "done" =>
                   /\ img[i].result.returned /\ ~img[i].result.success
                   /\ img[i].result.error /\ img[i].result.url = ""
                   /\ img[i].result.taskId = 0
       /\ \A t \in TaskIds : remote[t] = "none"

\* both invocations were called with no key set, and have returned
NoKeyNoRequestWitness ==
    /\ dashscopeApiKey = ""
    /\ \A i \in Invocations : img[i].pc = "done" /\ ~img[i].result.success

(***************************************************************************)
(* C12. Each iteration of the poller sends exactly one status check, and   *)
(* the checks of a task are paced by the interval: the first check is sent *)
(* with no wait before it, and between any two consecutive checks of the   *)
(* task there is exactly one wait of checkInterval.                        *)
(***************************************************************************)
PollSeq(r) == SelectSeq(r.events, IsPoll)

PollPacing ==
    \A i \in Invocations :
       LET r == img[i]
           p == PollSeq(r)
       IN  /\ r.attempts = NumChecks(r)
           /\ \A k \in 1..Len(p) :
                 /\ p[k].kind = (IF k % 2 = 1 THEN "status" ELSE "wait")
                 /\ p[k].task = r.taskId
           /\ r.pc = "checking" => Len(p) % 2 = 0
           /\ r.pc = "waiting" => Len(p) % 2 = 1

\* three status checks with a wait between each two, the third one answered
\* SUCCEEDED
PollPacingWitness ==
    \E i \in Invocations :
       /\ img[i].pc = "done" /\ img[i].attempts = 3
       /\ Len(PollSeq(img[i])) = 5
       /\ PollSeq(img[i])[5].outcome = "SUCCEEDED"

(***************************************************************************)
(* C13. The steps of one invocation are strictly sequential and the image  *)
(* is stored only on success: the create request precedes every status     *)
(* check, every status check precedes the download, and the download is    *)
(* started only after a status check answered SUCCEEDED with a non-empty   *)
(* result URL, never after a failed or timed out poll or a failed create.  *)
(***************************************************************************)
StepRank(e) ==
    CASE e.kind = "create" -> 1
      [] e.kind \in {"status", "wait"} -> 2
      [] OTHER -> 3

IsDownload(e) == e.kind = "download"

\* the invocation is in downloadImage, or has been
Downloads(r) == r.pc = "downloading" \/ SelectSeq(r.events, IsDownload) # <<>>

StrictlySequential ==
    \A i \in Invocations :
       LET r == img[i]
           n == Len(r.events)
           checks == SelectSeq(r.events, IsStatus)
       IN  /\ \A j \in 1..n, k \in 1..n :
                 j < k => /\ StepRank(r.events[j]) <= StepRank(r.events[k])
                          /\ StepRank(r.events[j]) = StepRank(r.events[k]) =>
                                StepRank(r.events[j]) = 2
           /\ (checks # <<>> \/ r.pc = "checking") =>
                 r.taskId # 0 /\ r.events[1] = Event("create", r.taskId, "ok")
           /\ Downloads(r) =>
                 /\ r.localPath /\ r.pollOutcome = "Succeeded" /\ r.imageUrl # ""
                 /\ checks # <<>> /\ checks[Len(checks)].outcome = "SUCCEEDED"
                 /\ \A k \in 1..(Len(checks) - 1) : NonTerminal(checks[k])
           /\ (r.pc \in {"polled", "done"} /\
               (r.taskId = 0 \/ r.pollOutcome # "Succeeded" \/ r.imageUrl = "")) =>
                 ~Downloads(r)
           /\ r.result.localPath =>
                 r.result.success /\ n > 0 /\ r.events[n] = Event("download", r.taskId, "ok")

\* create, two status checks, then the download, and the file is stored
StrictlySequentialWitness ==
    \E i \in Invocations :
       /\ img[i].pc = "done" /\ img[i].result.success /\ img[i].result.localPath
       /\ NumChecks(img[i]) = 2
       /\ img[i].events[Len(img[i].events)].kind = "download"

(***************************************************************************)
(* C14. A task is owned by the invocation that created it.  With two       *)
(* invocations interleaved at their awaits: a step of one invocation       *)
(* changes no local of the other; the two have different task ids; a       *)
(* status check is for the invocation's own task and its answer is that    *)
(* task's status; each counts its own attempts and sends at most its own   *)
(* maxAttempts checks; and the result of an invocation follows from the    *)
(* answers to its own checks.                                              *)
(***************************************************************************)
OwnChecks(r) == SelectSeq(r.events, IsStatus)

TaskOwnership ==
    [][\A i \in Invocations :
          LET a == img[i]
              b == img'[i]
              n == Len(b.events)
              own == OwnChecks(b)
          IN  /\ a # b => \A j \in Invocations \ {i} : img'[j] = img[j]
              /\ \A j \in Invocations \ {i} :
                    b.taskId # 0 => b.taskId # img'[j].taskId
              /\ (n = Len(a.events) + 1 /\ IsStatus(b.events[n])) =>
                    /\ b.events[n].task = a.taskId
                    /\ b.events[n].outcome \in
                          ErrorKinds \cup {"malformed", remote[a.taskId]}
              /\ b.attempts = NumChecks(b)
              /\ NumChecks(b) <= Max(b.maxAttempts, 0)
              /\ (b.pc = "done" /\ a.pc # "done") =>
                    /\ b.result.taskId = b.taskId
                    /\ b.result.success =>
                          own # <<>> /\ own[Len(own)] = Event("status", b.taskId, "SUCCEEDED")
                    /\ b.pollOutcome = "TimedOut" =>
                          /\ ~b.result.success
                          /\ Len(own) = b.maxAttempts
                          /\ OnlyNonTerminal(b)]_vars

\* both invocations polled their own tasks: the second timed out after its
\* one check, the first succeeded at its second check
TaskOwnershipWitness ==
    /\ img[1].pc = "done" /\ img[2].pc = "done"
    /\ img[1].taskId # 0 /\ img[2].taskId # 0
    /\ img[2].pollOutcome = "TimedOut" /\ img[2].attempts = 1
    /\ ~img[2].result.success
    /\ img[1].attempts = 2 /\ img[1].result.success
    /\ remote[img[2].taskId] = "FAILED"

(***************************************************************************)
(* C15. generateImage ends every invocation with a result value, never     *)
(* with an error raised to the caller, and the result is well-formed:      *)
(* success = true comes with a non-empty url, after a status check         *)
(* answered SUCCEEDED with a result URL; success = false comes with        *)
(* url = "" and an error; a SUCCEEDED answer with no URL, a malformed      *)
(* answer, a missing task id and a failed download give success = false;   *)
(* and the result has a taskId exactly when the create request returned    *)
(* one.                                                                    *)
(***************************************************************************)
\* the task id the create request returned (0: none)
CreatedId(r) ==
    IF r.events # <<>> /\ IsCreate(r.events[1]) THEN r.events[1].task ELSE 0

ResultWellFormed ==
    \A i \in Invocations :
       LET r == img[i]
           res == r.result
           n == Len(r.events)
           checks == SelectSeq(r.events, IsStatus)
       IN  /\ r.pc = "done" <=> res.returned
           /\ res.returned =>
                 /\ res.success =>
                       /\ res.url # "" /\ res.url = r.imageUrl /\ ~res.error
                       /\ checks # <<>> /\ checks[Len(checks)].outcome = "SUCCEEDED"
                       /\ r.pollOutcome = "Succeeded"
                       /\ r.localPath <=> res.localPath
                 /\ ~res.success => res.url = "" /\ res.error /\ ~res.localPath
                 /\ res.taskId = CreatedId(r)
                 /\ (r.pollOutcome # "Succeeded" \/ r.imageUrl = "") => ~res.success
                 /\ CreatedId(r) = 0 => ~res.success
                 /\ (n > 0 /\ IsDownload(r.events[n]) /\ r.events[n].outcome \in ErrorKinds)
                       => ~res.success /\ res.taskId # 0

\* a SUCCEEDED answer with no result URL: a failure that carries the taskId
ResultWellFormedWitness ==
    \E i \in Invocations :
       /\ img[i].result.returned /\ ~img[i].result.success
       /\ img[i].pollOutcome = "Succeeded" /\ img[i].imageUrl = ""
       /\ img[i].result.taskId # 0 /\ img[i].result.error

(***************************************************************************)
(* C16. The selected model is always a supported one: a service            *)
(* constructed with an absent or unsupported config.model has              *)
(* deepseek-reasoner selected; after any switchModel calls the selected    *)
(* model is deepseek-reasoner or deepseek-chat; and a switchModel call     *)
(* with an empty or unsupported name leaves the selected model as it was.  *)
(***************************************************************************)
SupportedModelAlways ==
    /\ configModel \notin AVAILABLE_MODELS => modelName = "deepseek-reasoner"
    /\ [](modelName \in {"deepseek-reasoner", "deepseek-chat"})
    /\ [][modelName' # modelName =>
             lastSwitch' \in AVAILABLE_MODELS /\ modelName' = lastSwitch']_vars

\* constructed with an unsupported name, switched to deepseek-chat, then
\* switchModel called with the empty name
SupportedModelAlwaysWitness ==
    /\ configModel = "gpt-4" /\ lastSwitch = "" /\ modelName = "deepseek-chat"

====
